---- MODULE Spec2Model ----
(***************************************************************************)
(* Model of the agents of egobogo/aiagents:                                 *)
(*   internal/agent/engmanager.go  HandleTicket, WaitForReply,             *)
(*                                 parseTasksFromResponse,                 *)
(*                                 AssignTicketToAgent,                    *)
(*                                 RespondToClarification                  *)
(*   internal/agent/agent.go       NewBaseAgent, LoadGuidanceTickets,      *)
(*                                 GetAssignedTickets, TicketBelongsToMe,  *)
(*                                 RefreshProjectContext, WriteComment,    *)
(*                                 ReadComments                            *)
(* Go strings are modelled as sequences of one-character strings, so that  *)
(* strings.Contains, strings.Split, strings.TrimSpace and strings.Join are *)
(* computed character by character.                                        *)
(***************************************************************************)
EXTENDS Integers, Sequences, FiniteSets, TLC

VARIABLES
    Name,           \* AIAgent.Name of the agent running HandleTicket
    board,          \* the ticket's comments as held by the ticket store, in board order
    pc,             \* position of the control flow in HandleTicket / WaitForReply
    clarifications, \* HandleTicket: text returned by the first model call
    attempt,        \* WaitForReply: loop counter
    comments,       \* WaitForReply: result of the latest ReadComments
    reply,          \* HandleTicket: comment returned by WaitForReply
    response,       \* HandleTicket: text returned by the second model call
    tasksParsed,    \* HandleTicket: result of parseTasksFromResponse
    idx,            \* HandleTicket: position of the range loop over tasksParsed
    failed,         \* positions of tasksParsed whose CreateCard call failed
    createdTickets, \* HandleTicket: cards created so far
    retCards,       \* HandleTicket: returned card list (<<>> is Go's nil slice)
    retErr,         \* HandleTicket: returned error chain, outermost first (<<>> is nil)
    calls,          \* number of calls made to each collaborator, per call site
    createArgs,     \* arguments of the CreateCard calls, in call order
    posted,         \* number of comments other board users have appended
    faults,         \* call sites whose collaborator call returned an error
    segments,       \* the segments the text under parse was assembled from
    boardCards,     \* the cards of the board as held by the ticket store, in board order
    assigned,       \* GetAssignedTickets: the cards collected so far
    needToRefreshContext, \* GetAssignedTickets: the one-shot flag of the scan
    refreshes,      \* RefreshProjectContext invocations made by the current scan
    scans,          \* number of GetAssignedTickets calls started
    sent,           \* the messages handed to the model client, in call order
    guidanceErr,    \* NewBaseAgent: the error LoadGuidanceTickets returned (<<>> is nil)
    agentName,      \* AssignTicketToAgent: the agentName argument
    member,         \* AssignTicketToAgent: the member GetMemberByName returned
    waiters,        \* the agents polling one ticket: name, position, counter, reply
    answer          \* RespondToClarification: position, model text, returned error

\* the state of the operations of agent.go and of the other manager operations
opVars == <<boardCards, assigned, needToRefreshContext, refreshes, scans, sent,
            guidanceErr, agentName, member, waiters, answer>>

vars == <<Name, board, pc, clarifications, attempt, comments, reply, response,
          tasksParsed, idx, failed, createdTickets, retCards, retErr, calls,
          createArgs, posted, faults, segments, opVars>>

----------------------------------------------------------------------------
(* Bounds of the model *)

\* comments that other board users append while the agent runs
MaxPosts == 2
\* segments a text under parse is assembled from
MaxSegs == 2

----------------------------------------------------------------------------
(* Go's strings package, on sequences of characters *)

\* unicode.IsSpace restricted to the characters of the model's texts
IsSpace(c) == c \in {" ", "\t", "\n", "\r", "\f"}

\* strings.HasPrefix
HasPrefix(s, p) == Len(p) <= Len(s) /\ SubSeq(s, 1, Len(p)) = p

\* strings.Contains
Contains(s, sub) ==
    \E i \in 1..(Len(s) - Len(sub) + 1) : SubSeq(s, i, i + Len(sub) - 1) = sub

\* strings.TrimSpace
RECURSIVE TrimLeft(_)
TrimLeft(s) ==
    IF s # <<>> /\ IsSpace(Head(s)) THEN TrimLeft(Tail(s)) ELSE s

RECURSIVE TrimRight(_)
TrimRight(s) ==
    IF s # <<>> /\ IsSpace(s[Len(s)]) THEN TrimRight(SubSeq(s, 1, Len(s) - 1)) ELSE s

TrimSpace(s) == TrimRight(TrimLeft(s))

\* strings.Split(s, sep) for a non-empty sep: cuts at the leftmost occurrence
\* of sep, then goes on in the text that follows that occurrence
RECURSIVE SplitFrom(_, _, _)
SplitFrom(s, sep, cur) ==
    IF s = <<>> THEN <<cur>>
    ELSE IF HasPrefix(s, sep)
         THEN <<cur>> \o SplitFrom(SubSeq(s, Len(sep) + 1, Len(s)), sep, <<>>)
         ELSE SplitFrom(Tail(s), sep, Append(cur, Head(s)))

Split(s, sep) == SplitFrom(s, sep, <<>>)

\* strings.Join
RECURSIVE Join(_, _)
Join(elems, sep) ==
    IF elems = <<>> THEN <<>>
    ELSE IF Len(elems) = 1 THEN elems[1]
    ELSE elems[1] \o sep \o Join(Tail(elems), sep)

----------------------------------------------------------------------------
(* parseTasksFromResponse *)

NL == <<"\n">>

\* the delimiter "\n@@@@\n" between two task blocks
Delimiter == <<"\n", "@", "@", "@", "@", "\n">>

\* ParseBlock with the title taken as lines[0], untrimmed
ParseBlockRawTitle(rawBlock) ==
    LET block == TrimSpace(rawBlock)
        lines == Split(block, NL)
        description == IF Len(lines) > 1
                       THEN TrimSpace(Join(Tail(lines), NL))
                       ELSE <<>>
    IN  IF block = <<>> THEN <<>>
        ELSE << [Title |-> lines[1], Description |-> description] >>

\* ParseBlock without the skip of a block that is empty after trimming
ParseBlockKeepsBlank(rawBlock) ==
    LET block == TrimSpace(rawBlock)
        lines == Split(block, NL)
        description == IF Len(lines) > 1
                       THEN TrimSpace(Join(Tail(lines), NL))
                       ELSE <<>>
    IN  << [Title |-> TrimSpace(lines[1]), Description |-> description] >>

\* the body of the loop over taskBlocks: the tasks one block adds
ParseBlock(rawBlock) ==
    LET block == TrimSpace(rawBlock)
        lines == Split(block, NL)
        title == TrimSpace(lines[1])
        description == IF Len(lines) > 1
                       THEN TrimSpace(Join(Tail(lines), NL))
                       ELSE <<>>
    IN  IF block = <<>> THEN <<>>
        ELSE IF Len(lines) = 0 THEN <<>>
        ELSE << [Title |-> title, Description |-> description] >>

RECURSIVE ParseBlocks(_)
ParseBlocks(taskBlocks) ==
    IF taskBlocks = <<>> THEN <<>>
    ELSE ParseBlock(Head(taskBlocks)) \o ParseBlocks(Tail(taskBlocks))

\* parseTasksFromResponse with a text that yields no task treated as an error
parseRejectsNoTask(text) ==
    [tasks |-> ParseBlocks(Split(text, Delimiter)),
     err |-> IF ParseBlocks(Split(text, Delimiter)) = <<>> THEN "no tasks" ELSE "nil"]

\* returns the tasks and the error, which the code never sets
parseTasksFromResponse(text) ==
    [tasks |-> ParseBlocks(Split(text, Delimiter)), err |-> "nil"]

----------------------------------------------------------------------------
(* Texts the collaborators can hand to the agent *)

\* names an agent can be constructed with
AgentNames == { <<"e", "m">>, <<"e">> }

\* texts the model can return for the clarification prompt
ClarificationTexts == { <<"q", "?">>, <<"q", " ", "@", "e", "m">> }

\* comments other board users can append to the ticket
BoardComments ==
    { <<"y", " ", "@", "e", "m">>,   \* a reply tagging em
      <<"@", "e", "m", " ", "n">>,   \* another reply tagging em
      <<"@", "e">> }                 \* tags e only

\* comments on the ticket before HandleTicket starts
PriorBoards == { <<>>, << <<"e", "@", "m">> >>, << <<"@", "e">> >> }

\* texts the model can return for the decomposition prompt
DecompositionTexts ==
    { <<>>,
      <<" ", "\n", "@", "@", "@", "@", "\n">>,
      <<"t", "\n", "d">>,
      <<"a", "\n", "@", "@", "@", "@", "\n", "b", " ", "\n", "x",
        "\n", "@", "@", "@", "@", "\n", "c">> }

----------------------------------------------------------------------------
(* WaitForReply *)

maxAttempts == 100

\* RequiredTag without the name: any mention satisfies the wait
AnyTag(name) == <<"@">>

\* the tag HandleTicket waits for: "@" + e.Name
RequiredTag(name) == <<"@">> \o name

\* LoopContinues with < for <=
LoopStopsEarly(a) == a < maxAttempts

\* the loop condition of the poll
LoopContinues(a) == a <= maxAttempts

\* FirstMatch with the scan keeping the latest comment holding the tag
RECURSIVE LastMatch(_, _)
LastMatch(cs, tag) ==
    IF cs = <<>> THEN <<>>
    ELSE IF Contains(cs[Len(cs)], tag) THEN cs[Len(cs)]
    ELSE LastMatch(SubSeq(cs, 1, Len(cs) - 1), tag)

\* the inner loop over one read's comments: the first comment holding the tag
\* (<<>> stands for "none", which no comment holding a tag equals)
RECURSIVE FirstMatch(_, _)
FirstMatch(cs, tag) ==
    IF cs = <<>> THEN <<>>
    ELSE IF Contains(Head(cs), tag) THEN Head(cs)
    ELSE FirstMatch(Tail(cs), tag)

\* Found with only the most recent comment looked at
FoundLastOnly(cs, tag) == cs # <<>> /\ Contains(cs[Len(cs)], tag)

\* whether the inner loop returns
Found(cs, tag) == \E i \in 1..Len(cs) : Contains(cs[i], tag)

----------------------------------------------------------------------------
(* HandleTicket *)

NoErr == <<>>

\* the reviewer tag appended to the clarification comment: "\n@bogoego"
ReviewerTag == <<"\n", "@", "b", "o", "g", "o", "e", "g", "o">>

NoCalls ==
    [ChatClarify |-> 0, WriteComment |-> 0, ReadComments |-> 0, Sleep |-> 0,
     ChatDecompose |-> 0, GetListIDByName |-> 0, CreateCard |-> 0]

Called(site) == calls' = [calls EXCEPT ![site] = @ + 1]

\* a collaborator call at this site returned an error
Failed(site) == faults' = faults \cup {site}

\* return cards, err
Return(cards, err) ==
    /\ pc' = "done"
    /\ retCards' = cards
    /\ retErr' = err

\* a nil *trello.Member; a member that is not nil is a one-element sequence
NilMember == <<>>

\* no operation of agent.go and no other manager operation is in progress
OpIdle ==
    /\ boardCards = <<>>
    /\ assigned = <<>>
    /\ needToRefreshContext = FALSE
    /\ refreshes = 0
    /\ scans = 0
    /\ sent = <<>>
    /\ guidanceErr = NoErr
    /\ agentName = <<>>
    /\ member = NilMember
    /\ waiters = <<>>
    /\ answer = "none"

Init ==
    /\ Name \in AgentNames
    /\ board \in PriorBoards
    /\ pc = "clarify"
    /\ clarifications = <<>>
    /\ attempt = 0
    /\ comments = <<>>
    /\ reply = <<>>
    /\ response = <<>>
    /\ tasksParsed = <<>>
    /\ idx = 0
    /\ failed = {}
    /\ createdTickets = <<>>
    /\ retCards = <<>>
    /\ retErr = NoErr
    /\ calls = NoCalls
    /\ createArgs = <<>>
    /\ posted = 0
    /\ faults = {}
    /\ segments = <<>>
    /\ OpIdle

\* ClarificationFailed with the error dropped: HandleTicket goes on to post
ClarificationErrorIgnored ==
    /\ Failed("ChatClarify")
    /\ clarifications' = <<>>
    /\ pc' = "post"
    /\ UNCHANGED <<retCards, retErr>>

\* lines 59-61: the model call for the clarification returned an error
ClarificationFailed ==
    /\ Failed("ChatClarify")
    /\ Return(<<>>, <<"failed to generate clarifications">>)
    /\ UNCHANGED clarifications

\* lines 46-61: the clarification prompt is sent to the model
GenerateClarification ==
    /\ pc = "clarify"
    /\ Called("ChatClarify")
    /\ \/ ClarificationFailed
       \/ /\ clarifications' \in ClarificationTexts
          /\ pc' = "post"
          /\ UNCHANGED <<retCards, retErr, faults>>
    /\ UNCHANGED <<Name, board, attempt, comments, reply, response, tasksParsed,
                   idx, failed, createdTickets, createArgs, posted, segments, opVars>>

\* PostClarification with the error of WriteComment dropped: the wait is entered
PostClarificationUnchecked ==
    /\ pc = "post"
    /\ Called("WriteComment")
    /\ \/ /\ Failed("WriteComment")
          /\ UNCHANGED board
       \/ /\ board' = Append(board, clarifications \o ReviewerTag)
          /\ UNCHANGED faults
    /\ attempt' = 1
    /\ pc' = "read"
    /\ UNCHANGED <<Name, clarifications, comments, reply, response, tasksParsed,
                   idx, failed, createdTickets, retCards, retErr, createArgs,
                   posted, segments, opVars>>

\* lines 63-71: the clarification is posted; on success WaitForReply is entered
PostClarification ==
    /\ pc = "post"
    /\ Called("WriteComment")
    /\ \/ /\ Failed("WriteComment")
          /\ Return(<<>>, <<"failed to post clarification comment">>)
          /\ UNCHANGED <<board, attempt>>
       \/ /\ board' = Append(board, clarifications \o ReviewerTag)
          /\ attempt' = 1
          /\ pc' = "read"
          /\ UNCHANGED <<retCards, retErr, faults>>
    /\ UNCHANGED <<Name, clarifications, comments, reply, response, tasksParsed,
                   idx, failed, createdTickets, createArgs, posted, segments, opVars>>

\* ReadFailed with the failed read retried after the sleep, within the budget
ReadFailedRetried ==
    /\ Failed("ReadComments")
    /\ pc' = "sleep"
    /\ UNCHANGED <<comments, reply, retCards, retErr>>

\* lines 158-160 and 72-74: ReadComments returned an error; WaitForReply returns
\* it and HandleTicket returns it wrapped
ReadFailed ==
    /\ Failed("ReadComments")
    /\ Return(<<>>, <<"failed to receive reply", "failed to read comments">>)
    /\ UNCHANGED <<comments, reply>>

\* lines 157-166: one read of the comments and the scan for the tag
PollRead ==
    /\ pc = "read"
    /\ Called("ReadComments")
    /\ \/ ReadFailed
       \/ /\ comments' = board
          /\ IF Found(board, RequiredTag(Name))
             THEN /\ reply' = FirstMatch(board, RequiredTag(Name))
                  /\ pc' = "decompose"
             ELSE /\ pc' = "sleep"
                  /\ UNCHANGED reply
          /\ UNCHANGED <<retCards, retErr, faults>>
    /\ UNCHANGED <<Name, board, clarifications, attempt, response, tasksParsed,
                   idx, failed, createdTickets, createArgs, posted, segments, opVars>>

\* PollTimeout with the error dropped: HandleTicket goes on with an empty reply
PollTimeoutIgnored ==
    /\ pc' = "decompose"
    /\ UNCHANGED <<retCards, retErr>>

\* lines 169 and 72-74: the loop ended with no reply; WaitForReply returns the
\* timeout error and HandleTicket returns it wrapped
PollTimeout ==
    Return(<<>>, <<"failed to receive reply", "reply not received after polling">>)

\* lines 167 and 156: the sleep, then the loop's step and condition
PollSleep ==
    /\ pc = "sleep"
    /\ Called("Sleep")
    /\ attempt' = attempt + 1
    /\ IF LoopContinues(attempt + 1)
       THEN /\ pc' = "read"
            /\ UNCHANGED <<retCards, retErr>>
       ELSE PollTimeout
    /\ UNCHANGED <<Name, board, clarifications, comments, reply, response,
                   tasksParsed, idx, failed, createdTickets, createArgs, posted,
                   faults, segments, opVars>>

\* lines 78-91: the reply is sent to the model and the response is parsed
Decompose ==
    /\ pc = "decompose"
    /\ Called("ChatDecompose")
    /\ \/ /\ Failed("ChatDecompose")
          /\ Return(<<>>, <<"failed to process reply with GPT">>)
          /\ UNCHANGED <<response, tasksParsed>>
       \/ \E text \in DecompositionTexts :
            LET parsed == parseTasksFromResponse(text)
            IN  /\ response' = text
                /\ IF parsed.err # "nil"
                   THEN /\ Return(<<>>, <<"failed to parse tasks">>)
                        /\ UNCHANGED tasksParsed
                   ELSE /\ tasksParsed' = parsed.tasks
                        /\ pc' = "lookup"
                        /\ UNCHANGED <<retCards, retErr>>
                /\ UNCHANGED faults
    /\ UNCHANGED <<Name, board, clarifications, attempt, comments, reply, idx,
                   failed, createdTickets, createArgs, posted, segments, opVars>>

\* NoTasks with an empty decomposition treated as a failure of the ticket
NoTasksIsError ==
    /\ Return(<<>>, <<"no tasks parsed">>)
    /\ UNCHANGED idx

\* lines 102 and 111: the range loop over no task runs no pass, and the empty
\* createdTickets is returned with no error
NoTasks ==
    /\ Return(createdTickets, NoErr)
    /\ UNCHANGED idx

\* lines 93-102 and 111: the destination list is looked up and the loop over
\* the tasks is entered; with no task the loop body never runs
LookupList ==
    /\ pc = "lookup"
    /\ Called("GetListIDByName")
    /\ \/ /\ Failed("GetListIDByName")
          /\ Return(<<>>, <<"failed to get Doing list ID">>)
          /\ UNCHANGED idx
       \/ /\ IF tasksParsed = <<>>
             THEN NoTasks
             ELSE /\ idx' = 1
                  /\ pc' = "create"
                  /\ UNCHANGED <<retCards, retErr>>
          /\ UNCHANGED faults
    /\ UNCHANGED <<Name, board, clarifications, attempt, comments, reply, response,
                   tasksParsed, failed, createdTickets, createArgs, posted, segments, opVars>>

\* line 104: the card CreateCard makes of a task, in the list "Doing" resolves to
CardOf(task) ==
    [Name |-> task.Title, Desc |-> task.Description, IDList |-> "Doing"]

\* CreateFailed without the continue: the nil card is appended
CreateFailedAppendsNil ==
    /\ failed' = failed \cup {idx}
    /\ createdTickets' = Append(createdTickets, "nil")

\* lines 105-108: CreateCard returned an error; the pass ends at the continue
CreateFailed ==
    /\ failed' = failed \cup {idx}
    /\ UNCHANGED createdTickets

\* lines 102-111: one pass of the loop body, and the return after the last
CreateChild ==
    /\ pc = "create"
    /\ Called("CreateCard")
    /\ createArgs' = Append(createArgs, tasksParsed[idx])
    /\ \/ CreateFailed
       \/ /\ createdTickets' = Append(createdTickets, CardOf(tasksParsed[idx]))
          /\ UNCHANGED failed
    /\ IF idx < Len(tasksParsed)
       THEN /\ idx' = idx + 1
            /\ UNCHANGED <<pc, retCards, retErr>>
       ELSE /\ Return(createdTickets', NoErr)
            /\ UNCHANGED idx
    /\ UNCHANGED <<Name, board, clarifications, attempt, comments, reply, response,
                   tasksParsed, posted, faults, segments, opVars>>

\* another board user appends a comment while the agent polls
OtherPost ==
    /\ pc \in {"read", "sleep"}
    /\ posted < MaxPosts
    /\ posted' = posted + 1
    /\ \E c \in BoardComments : board' = Append(board, c)
    /\ UNCHANGED <<Name, pc, clarifications, attempt, comments, reply, response,
                   tasksParsed, idx, failed, createdTickets, retCards, retErr,
                   calls, createArgs, faults, segments, opVars>>

Next ==
    \/ GenerateClarification
    \/ PostClarification
    \/ PollRead
    \/ PollSleep
    \/ Decompose
    \/ LookupList
    \/ CreateChild
    \/ OtherPost

Spec == Init /\ [][Next]_vars

----------------------------------------------------------------------------
(* parseTasksFromResponse on its own: a text is assembled from segments      *)
(* joined by the delimiter, then parsed                                     *)

\* the segments a text under parse is assembled from
SegmentPool ==
    { <<"a">>,
      <<"b", "\n", "c">>,
      <<" ", "a", " ", "\n", " ", "d", " ", "\n">>,
      <<"b", "\n", "\n", "c", "\n", "d">>,
      <<"\n", "b">>,
      <<" ", "\n", "a", "\n", "c">>,
      <<>>,
      <<" ", "\n">>,
      <<"\t", " ">>,
      <<" ", " ", " ", "\n", "\n">>,
      <<"a", "\n", "@", "@", "@", "@">>,
      <<"@", "@", "@", "@", "\n", "b">>,
      <<"@", "@", "@", "@">>,
      <<"a", " ", "@", "@", "@", "@", "\n", "b">> }

SegmentLists == UNION { [1..n -> SegmentPool] : n \in 1..MaxSegs }

ParseInit ==
    /\ segments \in SegmentLists
    /\ response = Join(segments, Delimiter)
    /\ pc = "parse"
    /\ Name = <<>>
    /\ board = <<>>
    /\ clarifications = <<>>
    /\ attempt = 0
    /\ comments = <<>>
    /\ reply = <<>>
    /\ tasksParsed = <<>>
    /\ idx = 0
    /\ failed = {}
    /\ createdTickets = <<>>
    /\ retCards = <<>>
    /\ retErr = NoErr
    /\ calls = NoCalls
    /\ createArgs = <<>>
    /\ posted = 0
    /\ faults = {}
    /\ OpIdle

\* line 87: tasksParsed, err := parseTasksFromResponse(response)
ParseResponse ==
    /\ pc = "parse"
    /\ tasksParsed' = parseTasksFromResponse(response).tasks
    /\ retErr' = IF parseTasksFromResponse(response).err = "nil"
                 THEN NoErr ELSE <<"failed to parse tasks">>
    /\ pc' = "parsed"
    /\ UNCHANGED <<Name, board, clarifications, attempt, comments, reply, response,
                   idx, failed, createdTickets, retCards, calls, createArgs,
                   posted, faults, segments, opVars>>

ParseNext == ParseResponse

ParseSpec == ParseInit /\ [][ParseNext]_vars

----------------------------------------------------------------------------
(* agent.go: NewBaseAgent, LoadGuidanceTickets, GetAssignedTickets,         *)
(* TicketBelongsToMe and RefreshProjectContext                              *)

\* cards on the board
MaxCards == 2
\* GetAssignedTickets calls an agent makes
MaxScans == 2

\* the members the ticket store knows: member id -> Username
Members ==
    [m1 |-> <<"e", "m">>, m2 |-> <<"E", "m">>, m3 |-> <<"e">>, m4 |-> <<"d">>]

\* the lists of the board: name -> list id
ListIDs == [IMPORTANT |-> "L1", Doing |-> "L2"]

\* the cards a board is made of
CardPool ==
    { [Name |-> <<"g">>, Desc |-> <<"x">>, IDList |-> "L1", IDMembers |-> <<>>],
      [Name |-> <<"h">>, Desc |-> <<>>, IDList |-> "L1", IDMembers |-> <<"m3">>],
      [Name |-> <<"t">>, Desc |-> <<"d">>, IDList |-> "L2",
       IDMembers |-> <<"m4", "m2">>],
      [Name |-> <<"u">>, Desc |-> <<>>, IDList |-> "L2", IDMembers |-> <<"m1">>],
      [Name |-> <<"v">>, Desc |-> <<>>, IDList |-> "L2", IDMembers |-> <<>>] }

Boards == UNION { [1..n -> CardPool] : n \in 0..MaxCards }

\* the purpose an agent is constructed with
Purpose == <<"p">>

\* unicode.ToLower restricted to the letters of the model's names
Lower(c) == CASE c = "E" -> "e" [] c = "M" -> "m" [] c = "D" -> "d" [] OTHER -> c

\* strings.EqualFold
EqualFold(s, t) ==
    /\ Len(s) = Len(t)
    /\ \A i \in 1..Len(s) : Lower(s[i]) = Lower(t[i])

\* lines 60-70 from member i on; failing holds the positions of card.IDMembers
\* whose GetMember call returns an error
RECURSIVE BelongsFrom(_, _, _, _)
BelongsFrom(card, name, failing, i) ==
    IF i > Len(card.IDMembers) THEN FALSE
    ELSE IF i \in failing THEN BelongsFrom(card, name, failing, i + 1)
    ELSE IF EqualFold(Members[card.IDMembers[i]], name) THEN TRUE
    ELSE BelongsFrom(card, name, failing, i + 1)

TicketBelongsToMe(card, name, failing) == BelongsFrom(card, name, failing, 1)

\* the positions of card.IDMembers the loop of TicketBelongsToMe gets to
Consulted(card, name, failing) ==
    { i \in 1..Len(card.IDMembers) :
        ~TicketBelongsToMe([card EXCEPT !.IDMembers = SubSeq(@, 1, i - 1)],
                           name, failing) }

\* "Guidance Tickets:\n"
GuidanceHeader ==
    <<"G", "u", "i", "d", "a", "n", "c", "e", " ", "T", "i", "c", "k", "e",
    "t", "s", ":", "\n">>

\* "Title: "
TitleLabel == <<"T", "i", "t", "l", "e", ":", " ">>

\* "Details: "
DetailsLabel == <<"D", "e", "t", "a", "i", "l", "s", ":", " ">>

\* lines 227-228: the text one guidance card adds
GuidanceEntry(card) ==
    TitleLabel \o card.Name \o NL \o DetailsLabel \o card.Desc \o NL \o NL

\* GuidanceEntries without the test of the card's list
RECURSIVE GuidanceEntriesOfAllLists(_, _)
GuidanceEntriesOfAllLists(cs, listID) ==
    IF cs = <<>> THEN <<>>
    ELSE GuidanceEntry(Head(cs)) \o GuidanceEntriesOfAllLists(Tail(cs), listID)

\* lines 225-230: the loop over the cards of the board
RECURSIVE GuidanceEntries(_, _)
GuidanceEntries(cs, listID) ==
    IF cs = <<>> THEN <<>>
    ELSE IF Head(cs).IDList = listID
         THEN GuidanceEntry(Head(cs)) \o GuidanceEntries(Tail(cs), listID)
         ELSE GuidanceEntries(Tail(cs), listID)

\* lines 223-231
GuidanceText(cs, listID) == GuidanceHeader \o GuidanceEntries(cs, listID)

\* lines 174-190 for a repository with no file: the head of the prompt
ContextPrompt ==
    <<"P", "r", "o", "j", "e", "c", "t", " ", "C", "o", "n", "t", "e", "x",
    "t", " ", "U", "p", "d", "a", "t", "e", ":", "\n">>

NoAgentCalls == [LoadGuidanceTickets |-> 0, RefreshProjectContext |-> 0]

AgentInit ==
    /\ Name \in AgentNames
    /\ boardCards \in Boards
    /\ pc = "new"
    /\ calls = NoAgentCalls
    /\ board = <<>>
    /\ clarifications = <<>>
    /\ attempt = 0
    /\ comments = <<>>
    /\ reply = <<>>
    /\ response = <<>>
    /\ tasksParsed = <<>>
    /\ idx = 0
    /\ failed = {}
    /\ createdTickets = <<>>
    /\ retCards = <<>>
    /\ retErr = NoErr
    /\ createArgs = <<>>
    /\ posted = 0
    /\ faults = {}
    /\ segments = <<>>
    /\ assigned = <<>>
    /\ needToRefreshContext = FALSE
    /\ refreshes = 0
    /\ scans = 0
    /\ sent = <<>>
    /\ guidanceErr = NoErr
    /\ agentName = <<>>
    /\ member = NilMember
    /\ waiters = <<>>
    /\ answer = "none"

\* line 232: no card of the IMPORTANT list was found
NoGuidance(guidanceText) == guidanceText = GuidanceHeader

\* lines 203-249, as called at line 37: the error returned goes to guidanceErr
LoadGuidanceTickets ==
    LET listID == ListIDs.IMPORTANT
        guidanceText == GuidanceText(boardCards, listID)
    IN  \/ /\ Failed("GetListIDByName")
           /\ guidanceErr' = <<"failed to get list ID for IMPORTANT">>
           /\ UNCHANGED sent
        \/ /\ Failed("GetBoard")
           /\ guidanceErr' = <<"failed to get board">>
           /\ UNCHANGED sent
        \/ /\ Failed("GetCards")
           /\ guidanceErr' = <<"failed to get cards from board">>
           /\ UNCHANGED sent
        \/ /\ NoGuidance(guidanceText)
           /\ guidanceErr' = NoErr
           /\ UNCHANGED <<sent, faults>>
        \/ /\ ~NoGuidance(guidanceText)
           /\ sent' = Append(sent, [Role |-> "system", Content |-> guidanceText])
           /\ \/ /\ Failed("ChatWithMessages")
                 /\ guidanceErr' = <<"failed to update GPT guidance context">>
              \/ /\ guidanceErr' = NoErr
                 /\ UNCHANGED faults

\* GuidanceWarned with a guidance failure ending the construction
GuidanceFailureFatal ==
    IF guidanceErr' # NoErr
    THEN /\ pc' = "failed"
         /\ retErr' = <<"failed to load guidance">>
    ELSE /\ pc' = "purpose"
         /\ UNCHANGED retErr

\* lines 37-40: an error of LoadGuidanceTickets is logged and construction goes on
GuidanceWarned ==
    /\ pc' = "purpose"
    /\ UNCHANGED retErr

\* lines 28-40: the agent is built and the guidance is loaded
LoadGuidance ==
    /\ pc = "new"
    /\ calls' = [calls EXCEPT !.LoadGuidanceTickets = @ + 1]
    /\ LoadGuidanceTickets
    /\ GuidanceWarned
    /\ UNCHANGED <<Name, board, clarifications, attempt, comments, reply, response,
                   tasksParsed, idx, failed, createdTickets, retCards, createArgs,
                   posted, segments, boardCards, assigned, needToRefreshContext,
                   refreshes, scans, agentName, member, waiters, answer>>

\* lines 42-53: the purpose is sent as a system message; the agent is returned
\* (pc "idle") unless the call fails (pc "failed": nil agent and the error)
SetPurpose ==
    /\ pc = "purpose"
    /\ sent' = Append(sent, [Role |-> "system", Content |-> Purpose])
    /\ \/ /\ Failed("ChatWithMessages")
          /\ pc' = "failed"
          /\ retErr' = <<"failed to set purpose">>
       \/ /\ pc' = "idle"
          /\ UNCHANGED <<retErr, faults>>
    /\ UNCHANGED <<Name, board, clarifications, attempt, comments, reply, response,
                   tasksParsed, idx, failed, createdTickets, retCards, calls,
                   createArgs, posted, segments, boardCards, assigned,
                   needToRefreshContext, refreshes, scans, guidanceErr, agentName,
                   member, waiters, answer>>

\* return cards, err of GetAssignedTickets: the agent is idle again
ScanReturn(cs, err) ==
    /\ pc' = "idle"
    /\ retCards' = cs
    /\ retErr' = err

\* lines 147 and 159-160: the next pass of the range loop, or the end of the scan;
\* flag and collected are the values needToRefreshContext and assigned have at
\* the end of the current pass
NextCard(flag, collected) ==
    IF idx < Len(boardCards)
    THEN /\ idx' = idx + 1
         /\ pc' = "scan"
         /\ needToRefreshContext' = flag
         /\ UNCHANGED <<retCards, retErr>>
    ELSE /\ needToRefreshContext' = TRUE
         /\ ScanReturn(collected, NoErr)
         /\ UNCHANGED idx

\* lines 136-147: the board and its cards are read and the loop is entered
StartScan ==
    /\ pc = "idle"
    /\ scans < MaxScans
    /\ scans' = scans + 1
    /\ refreshes' = 0
    /\ assigned' = <<>>
    /\ \/ /\ faults' = {"GetBoard"}
          /\ ScanReturn(<<>>, <<"failed to get board">>)
          /\ UNCHANGED <<idx, needToRefreshContext>>
       \/ /\ faults' = {"GetCards"}
          /\ ScanReturn(<<>>, <<"failed to get cards">>)
          /\ UNCHANGED <<idx, needToRefreshContext>>
       \/ /\ faults' = {}
          /\ IF boardCards = <<>>
             THEN /\ needToRefreshContext' = TRUE
                  /\ ScanReturn(<<>>, NoErr)
                  /\ UNCHANGED idx
             ELSE /\ idx' = 1
                  /\ pc' = "scan"
                  /\ needToRefreshContext' = TRUE
                  /\ UNCHANGED <<retCards, retErr>>
    /\ UNCHANGED <<Name, board, clarifications, attempt, comments, reply, response,
                   tasksParsed, failed, createdTickets, calls, createArgs, posted,
                   segments, boardCards, sent, guidanceErr, agentName, member,
                   waiters, answer>>

\* lines 148-150 and 157: one card is tested and, when it belongs to the agent,
\* collected; the first collected card of a scan leads to the refresh
ScanCard ==
    /\ pc = "scan"
    /\ \E failing \in SUBSET (1..Len(boardCards[idx].IDMembers)) :
         /\ failing \subseteq Consulted(boardCards[idx], Name, failing)
         /\ faults' = IF failing = {} THEN faults ELSE faults \cup {"GetMember"}
         /\ IF TicketBelongsToMe(boardCards[idx], Name, failing)
            THEN /\ assigned' = Append(assigned, boardCards[idx])
                 /\ IF needToRefreshContext
                    THEN /\ pc' = "refresh"
                         /\ UNCHANGED <<idx, needToRefreshContext, retCards, retErr>>
                    ELSE NextCard(needToRefreshContext, assigned')
            ELSE /\ UNCHANGED assigned
                 /\ NextCard(needToRefreshContext, assigned)
    /\ UNCHANGED <<Name, board, clarifications, attempt, comments, reply, response,
                   tasksParsed, failed, createdTickets, calls, createArgs, posted,
                   segments, boardCards, refreshes, scans, sent, guidanceErr,
                   agentName, member, waiters, answer>>

\* line 155 left out: the flag stays set after a refresh
FlagLeftSet == TRUE

\* line 155: needToRefreshContext = false
FlagAfterRefresh == FALSE

\* lines 151-156 and 165-199: RefreshProjectContext is called; its error ends the
\* scan, its success clears the flag
RefreshContext ==
    /\ pc = "refresh"
    /\ calls' = [calls EXCEPT !.RefreshProjectContext = @ + 1]
    /\ refreshes' = refreshes + 1
    /\ \/ /\ Failed("ReadAllFiles")
          /\ ScanReturn(<<>>, <<"failed to refresh context", "failed to read git files">>)
          /\ UNCHANGED <<sent, idx, needToRefreshContext>>
       \/ /\ sent' = Append(sent, [Role |-> "user", Content |-> ContextPrompt])
          /\ \/ /\ Failed("Chat")
                /\ ScanReturn(<<>>, <<"failed to refresh context",
                                      "failed to update GPT context">>)
                /\ UNCHANGED <<idx, needToRefreshContext>>
             \/ /\ NextCard(FlagAfterRefresh, assigned)
                /\ UNCHANGED faults
    /\ UNCHANGED <<Name, board, clarifications, attempt, comments, reply, response,
                   tasksParsed, failed, createdTickets, createArgs, posted, segments,
                   boardCards, assigned, scans, guidanceErr, agentName, member,
                   waiters, answer>>

AgentNext ==
    \/ LoadGuidance
    \/ SetPurpose
    \/ StartScan
    \/ ScanCard
    \/ RefreshContext

AgentSpec == AgentInit /\ [][AgentNext]_vars

----------------------------------------------------------------------------
(* engmanager.go: AssignTicketToAgent *)

\* the names AssignTicketToAgent is called with; no member is named "x"
AssignNames == { <<"e">>, <<"e", "m">>, <<"x">> }

\* TrelloClient.GetMemberByName: the results a lookup of name can have, either
\* a member of that name and no error, or no member and the error
GetMemberByName(name) ==
    { [member |-> << [ID |-> id, Username |-> Members[id]] >>, err |-> NoErr] :
        id \in { k \in DOMAIN Members : Members[k] = name } }
    \cup { [member |-> NilMember, err |-> <<"member not found">>] }

\* Card.AssignMember: the member ids of the card after the member is assigned
AssignMember(ids, id) ==
    IF \E k \in 1..Len(ids) : ids[k] = id THEN ids ELSE Append(ids, id)

AssignInit ==
    /\ Name \in AgentNames
    /\ boardCards \in Boards \ {<<>>}
    /\ pc = "assign"
    /\ calls = NoAgentCalls
    /\ board = <<>>
    /\ clarifications = <<>>
    /\ attempt = 0
    /\ comments = <<>>
    /\ reply = <<>>
    /\ response = <<>>
    /\ tasksParsed = <<>>
    /\ idx = 0
    /\ failed = {}
    /\ createdTickets = <<>>
    /\ retCards = <<>>
    /\ retErr = NoErr
    /\ createArgs = <<>>
    /\ posted = 0
    /\ faults = {}
    /\ segments = <<>>
    /\ assigned = <<>>
    /\ needToRefreshContext = FALSE
    /\ refreshes = 0
    /\ scans = 0
    /\ sent = <<>>
    /\ guidanceErr = NoErr
    /\ agentName = <<>>
    /\ member = NilMember
    /\ waiters = <<>>
    /\ answer = "none"

\* AssignedID with the id of the board's first member for that of the lookup
FirstMemberID(m) == "m1"

\* line 27: member.ID
AssignedID(m) == m[1].ID

\* lines 19-32, called for card idx' of the board with the name agentName'
AssignTicketToAgent ==
    /\ pc = "assign"
    /\ pc' = "assigned"
    /\ \E i \in 1..Len(boardCards), name \in AssignNames :
         /\ idx' = i
         /\ agentName' = name
         /\ \E lookup \in GetMemberByName(name) :
              /\ member' = lookup.member
              /\ IF lookup.member = NilMember
                 THEN /\ faults' = faults \cup {"GetMemberByName"}
                      /\ retErr' = <<"failed to find an agent">> \o lookup.err
                      /\ UNCHANGED boardCards
                 ELSE \/ /\ faults' = faults \cup {"AssignMember"}
                         /\ retErr' = <<"failed to assign ticket to agent">>
                         /\ UNCHANGED boardCards
                      \/ /\ boardCards' =
                               [boardCards EXCEPT ![i].IDMembers =
                                   AssignMember(@, AssignedID(lookup.member))]
                         /\ retErr' = NoErr
                         /\ UNCHANGED faults
    /\ UNCHANGED <<Name, board, clarifications, attempt, comments, reply, response,
                   tasksParsed, failed, createdTickets, retCards, calls, createArgs,
                   posted, segments, assigned, needToRefreshContext, refreshes,
                   scans, sent, guidanceErr, waiters, answer>>

AssignNext == AssignTicketToAgent

AssignSpec == AssignInit /\ [][AssignNext]_vars

----------------------------------------------------------------------------
(* engmanager.go: agents in WaitForReply on one ticket: two agents waiting  *)
(* concurrently, and one agent that RespondToClarification answers         *)

\* comments other board users append while the agents wait
MaxReplies == 1

\* the names of two agents that wait concurrently
NamePairs == { << <<"e", "m">>, <<"e">> >> }

\* comments other board users can append while the agents wait
PairComments == { <<"@", "e", "m", " ", "n">>, <<"@", "e">> }

\* texts the model can return for the clarification request
AnswerTexts == { <<"a">>, <<"@", "e">> }

\* "Response: "
ResponseLabel == <<"R", "e", "s", "p", "o", "n", "s", "e", ":", " ">>

\* ResponseComment without the tag of the requester
ResponseUntagged(clarification, backendName) == ResponseLabel \o clarification

\* line 184: fmt.Sprintf("Response: %s @%s", clarification, backend.Name)
ResponseComment(clarification, backendName) ==
    ResponseLabel \o clarification \o <<" ", "@">> \o backendName

\* an agent entering WaitForReply (line 156: attempt := 1)
Waiting(name) ==
    [name |-> name, pc |-> "read", attempt |-> 1, comments |-> <<>>,
     reply |-> <<>>]

\* WaitForReply has returned: its locals are gone
Left(w, how, comment) ==
    [w EXCEPT !.pc = how, !.attempt = 0, !.comments = <<>>, !.reply = comment]

\* no RespondToClarification call was made, and nothing else is in progress
PairIdle ==
    /\ answer = [state |-> "none", chat |-> "none", clarification |-> <<>>,
                 posts |-> <<>>, err |-> NoErr]
    /\ pc = "pair"
    /\ Name = <<>>
    /\ calls = NoCalls
    /\ clarifications = <<>>
    /\ attempt = 0
    /\ comments = <<>>
    /\ reply = <<>>
    /\ response = <<>>
    /\ tasksParsed = <<>>
    /\ idx = 0
    /\ failed = {}
    /\ createdTickets = <<>>
    /\ retCards = <<>>
    /\ retErr = NoErr
    /\ createArgs = <<>>
    /\ posted = 0
    /\ faults = {}
    /\ segments = <<>>
    /\ boardCards = <<>>
    /\ assigned = <<>>
    /\ needToRefreshContext = FALSE
    /\ refreshes = 0
    /\ scans = 0
    /\ sent = <<>>
    /\ guidanceErr = NoErr
    /\ agentName = <<>>
    /\ member = NilMember

\* two agents have posted their clarification comments and wait
PairInit ==
    /\ \E names \in NamePairs : waiters = <<Waiting(names[1]), Waiting(names[2])>>
    /\ \E c1 \in ClarificationTexts, c2 \in ClarificationTexts :
         board = <<c1 \o ReviewerTag, c2 \o ReviewerTag>>
    /\ PairIdle

\* lines 157-166 for agent i: one read of the comments and the scan for its tag
WaiterRead(i) ==
    /\ waiters[i].pc = "read"
    /\ \/ waiters' = [waiters EXCEPT ![i] = Left(@, "failed", <<>>)]
       \/ waiters' = [waiters EXCEPT ![i] =
             IF Found(board, RequiredTag(@.name))
             THEN Left(@, "replied", FirstMatch(board, RequiredTag(@.name)))
             ELSE [@ EXCEPT !.pc = "sleep", !.comments = board]]
    /\ UNCHANGED <<Name, board, pc, clarifications, attempt, comments, reply,
                   response, tasksParsed, idx, failed, createdTickets, retCards,
                   retErr, calls, createArgs, posted, faults, segments, boardCards,
                   assigned, needToRefreshContext, refreshes, scans, sent,
                   guidanceErr, agentName, member, answer>>

\* lines 167, 156 and 169 for agent i: the sleep, then the loop's step and
\* condition, and the timeout error when the loop ends
WaiterSleep(i) ==
    /\ waiters[i].pc = "sleep"
    /\ waiters' = [waiters EXCEPT ![i] =
          IF LoopContinues(@.attempt + 1)
          THEN [@ EXCEPT !.pc = "read", !.attempt = @ + 1]
          ELSE Left(@, "timeout", <<>>)]
    /\ UNCHANGED <<Name, board, pc, clarifications, attempt, comments, reply,
                   response, tasksParsed, idx, failed, createdTickets, retCards,
                   retErr, calls, createArgs, posted, faults, segments, boardCards,
                   assigned, needToRefreshContext, refreshes, scans, sent,
                   guidanceErr, agentName, member, answer>>

\* another board user appends a comment while the agents wait
PairPost ==
    /\ posted < MaxReplies
    /\ posted' = posted + 1
    /\ \E c \in PairComments : board' = Append(board, c)
    /\ UNCHANGED <<Name, pc, clarifications, attempt, comments, reply, response,
                   tasksParsed, idx, failed, createdTickets, retCards, retErr,
                   calls, createArgs, faults, segments, opVars>>

\* lines 173-189, called with the waiting agent as backend: the model is asked
\* for the clarification and the response comment is posted
RespondToClarification ==
    /\ answer.state = "none"
    /\ \/ /\ answer' = [answer EXCEPT !.state = "failed", !.chat = "failed",
                           !.err = <<"failed to generate clarification">>]
          /\ UNCHANGED board
       \/ \E clarification \in AnswerTexts :
            LET responseComment == ResponseComment(clarification, waiters[1].name)
            IN  \/ /\ answer' = [answer EXCEPT !.state = "failed", !.chat = "ok",
                                    !.clarification = clarification,
                                    !.posts = Append(@, responseComment),
                                    !.err = <<"failed to post clarification response">>]
                   /\ UNCHANGED board
                \/ /\ answer' = [answer EXCEPT !.state = "done", !.chat = "ok",
                                    !.clarification = clarification,
                                    !.posts = Append(@, responseComment)]
                   /\ board' = Append(board, responseComment)
    /\ UNCHANGED <<Name, pc, clarifications, attempt, comments, reply, response,
                   tasksParsed, idx, failed, createdTickets, retCards, retErr,
                   calls, createArgs, posted, faults, segments, boardCards,
                   assigned, needToRefreshContext, refreshes, scans, sent,
                   guidanceErr, agentName, member, waiters>>

PairNext ==
    \/ \E i \in DOMAIN waiters : WaiterRead(i)
    \/ \E i \in DOMAIN waiters : WaiterSleep(i)
    \/ PairPost

PairSpec == PairInit /\ [][PairNext]_vars

\* one agent waits for the reply to its clarification comment
AnswerInit ==
    /\ \E name \in AgentNames : waiters = <<Waiting(name)>>
    /\ \E c \in ClarificationTexts : board = <<c \o ReviewerTag>>
    /\ PairIdle

AnswerNext ==
    \/ WaiterRead(1)
    \/ WaiterSleep(1)
    \/ PairPost
    \/ RespondToClarification

AnswerSpec == AnswerInit /\ [][AnswerNext]_vars

----------------------------------------------------------------------------
(* Properties of WaitForReply and HandleTicket, checked under Spec *)

\* the tag the running agent waits for
Tag == RequiredTag(Name)

\* comment c has the tag as a substring: c = u \o tag \o v for some u, v
HoldsTag(c, tag) ==
    \E i \in 0..Len(c) : HasPrefix(SubSeq(c, i + 1, Len(c)), tag)

\* the latest read of the comments holds a comment with the tag
MatchingRead ==
    /\ calls.ReadComments > 0
    /\ \E i \in 1..Len(comments) : HoldsTag(comments[i], Tag)

\* WaitForReply has returned a reply to HandleTicket
Replied ==
    \/ pc \in {"decompose", "lookup", "create"}
    \/ pc = "done" /\ calls.ChatDecompose > 0

\* HandleTicket has returned the timeout of the reply wait
TimedOut ==
    /\ pc = "done"
    /\ retErr = <<"failed to receive reply", "reply not received after polling">>

\* C1: WaitForReply returns on the first poll iteration whose read of the
\* comments holds a comment with the required tag as a substring (it is never
\* still polling after such a read, and it returns a reply only after one), and
\* after that read no further read of the comments and no further sleep is made.
C1_ReturnsOnFirstMatchingRead ==
    [][ /\ MatchingRead' => (pc' \notin {"read", "sleep"} /\ HoldsTag(reply', Tag'))
        /\ Replied' => MatchingRead'
        /\ MatchingRead => /\ calls'.ReadComments = calls.ReadComments
                           /\ calls'.Sleep = calls.Sleep ]_vars

\* the reply was found on a later iteration than the first, and the
\* decomposition has gone on from there
C1_Witness ==
    /\ pc = "lookup"
    /\ calls.ReadComments >= 2
    /\ calls.Sleep = calls.ReadComments - 1
    /\ MatchingRead

\* C2: WaitForReply fails with the timeout error after exactly maxAttempts
\* reads of the comments, the last of them (like every one before) holding no
\* comment with the tag; it never reads more than maxAttempts times nor sleeps
\* more, so the poll ends; and maxAttempts reads without a tag and without a
\* read error end in the timeout error.
C2_TimeoutAfterMaxAttemptsReads ==
    /\ calls.ReadComments <= maxAttempts
    /\ calls.Sleep <= maxAttempts
    /\ pc = "read" => calls.ReadComments < maxAttempts
    /\ TimedOut => /\ calls.ReadComments = maxAttempts
                   /\ ~MatchingRead
    /\ ( /\ pc = "done"
         /\ calls.ReadComments = maxAttempts
         /\ ~MatchingRead
         /\ "ReadComments" \notin faults ) => TimedOut

\* a call that timed out after maxAttempts reads
C2_Witness ==
    /\ TimedOut
    /\ calls.ReadComments = maxAttempts
    /\ posted = MaxPosts

\* C3 as claimed: WaitForReply sleeps only between two consecutive reads, so
\* that once HandleTicket has returned (the timeout included) fewer sleeps than
\* reads have been made.
C3_SleepsOnlyBetweenReads ==
    (pc = "done" /\ calls.ReadComments > 0) => calls.Sleep < calls.ReadComments

\* C4: when one read holds several comments with the tag, the reply is the
\* earliest of them in board order: a comment of that read with the tag, with
\* no comment holding the tag before it.
C4_FirstMatchInBoardOrder ==
    Replied =>
        \E k \in 1..Len(comments) :
            /\ comments[k] = reply
            /\ HoldsTag(reply, Tag)
            /\ \A j \in 1..(k - 1) : ~HoldsTag(comments[j], Tag)

\* one read held two different comments with the tag, and the reply is not
\* the more recent one
C4_Witness ==
    /\ Replied
    /\ \E j, k \in 1..Len(comments) :
           /\ j < k
           /\ HoldsTag(comments[j], Tag)
           /\ HoldsTag(comments[k], Tag)
           /\ comments[j] # comments[k]
           /\ reply = comments[j]
           /\ \A m \in (k + 1)..Len(comments) : ~HoldsTag(comments[m], Tag)

\* the poll loop has run out of attempts
PollExhausted == attempt > maxAttempts

\* C5: when the reply wait runs out of attempts, HandleTicket returns the
\* timeout error and no card; the decomposition model call, the lookup of the
\* destination list and the creation of a child ticket are never made.
C5_TimeoutReturnsErrorAndNothingElse ==
    PollExhausted =>
        /\ TimedOut
        /\ retErr # NoErr
        /\ retCards = <<>>
        /\ createdTickets = <<>>
        /\ calls.ChatDecompose = 0
        /\ calls.GetListIDByName = 0
        /\ calls.CreateCard = 0

\* the reply wait ran out of attempts and HandleTicket returned
C5_Witness ==
    /\ PollExhausted
    /\ pc = "done"
    /\ retErr # NoErr
    /\ calls.Sleep = maxAttempts

\* no poll was started and no child ticket was made
NoPollNoChild ==
    /\ calls.ReadComments = 0
    /\ calls.Sleep = 0
    /\ calls.ChatDecompose = 0
    /\ calls.GetListIDByName = 0
    /\ calls.CreateCard = 0
    /\ createdTickets = <<>>

\* C6: when the model call for the clarification fails, or the post of the
\* clarification comment fails, HandleTicket returns that error and no card,
\* having made the failed call once; it never polls and creates no child
\* ticket; after a failed model call no comment was posted on the ticket.
C6_ClarificationFailureIsFatal ==
    /\ "ChatClarify" \in faults =>
           /\ pc = "done"
           /\ retErr = <<"failed to generate clarifications">>
           /\ retCards = <<>>
           /\ calls.ChatClarify = 1
           /\ calls.WriteComment = 0
           /\ board \in PriorBoards
           /\ NoPollNoChild
    /\ "WriteComment" \in faults =>
           /\ pc = "done"
           /\ retErr = <<"failed to post clarification comment">>
           /\ retCards = <<>>
           /\ calls.ChatClarify = 1
           /\ calls.WriteComment = 1
           /\ NoPollNoChild

\* the model call for the clarification failed
C6_Witness ==
    /\ "ChatClarify" \in faults
    /\ pc = "done"
    /\ calls.ChatClarify = 1

\* the cards of the first n tasks whose creation did not fail, in task order
RECURSIVE ExpectedCreated(_)
ExpectedCreated(n) ==
    IF n = 0 THEN <<>>
    ELSE IF n \in failed THEN ExpectedCreated(n - 1)
    ELSE Append(ExpectedCreated(n - 1),
                [Name |-> tasksParsed[n].Title,
                 Desc |-> tasksParsed[n].Description,
                 IDList |-> "Doing"])

\* HandleTicket has returned from the creation of the child tickets
CreationDone ==
    /\ pc = "done"
    /\ calls.GetListIDByName = 1
    /\ "GetListIDByName" \notin faults

\* C7: in the creation of the child tickets, whatever creations fail, creation
\* is attempted exactly once for every parsed task, in parse order, and the
\* returned list is exactly the cards of the tasks whose creation succeeded, in
\* task order; a failed task is left out, not retried, and HandleTicket returns
\* no error.
C7_ChildCreationIsBestEffort ==
    /\ pc = "create" =>
           /\ createArgs = SubSeq(tasksParsed, 1, idx - 1)
           /\ createdTickets = ExpectedCreated(idx - 1)
    /\ CreationDone =>
           /\ createArgs = tasksParsed
           /\ calls.CreateCard = Len(tasksParsed)
           /\ failed \subseteq 1..Len(tasksParsed)
           /\ retErr = NoErr
           /\ retCards = ExpectedCreated(Len(tasksParsed))

\* of three tasks the creation of the second failed, and the other two cards
\* were returned
C7_Witness ==
    /\ CreationDone
    /\ Len(tasksParsed) = 3
    /\ failed = {2}
    /\ Len(retCards) = 2
    /\ retErr = NoErr

\* the decomposition response was parsed into no task
ParsedNoTask ==
    /\ calls.ChatDecompose = 1
    /\ "ChatDecompose" \notin faults
    /\ tasksParsed = <<>>

\* C8 as claimed: when the parse yields no task, HandleTicket returns an empty
\* result and no error, whatever the collaborator calls after the parse do.
C8_NoTaskNeverFails ==
    (pc = "done" /\ ParsedNoTask) => (retErr = NoErr /\ retCards = <<>>)

\* C8 as amended: when the parse yields no task, HandleTicket returns an empty
\* result and no error if the lookup of the destination list succeeds, and the
\* error of that lookup (and no card) if it fails; no child ticket is created.
C8_NoTaskFailsOnlyOnLookup ==
    (pc = "done" /\ ParsedNoTask) =>
        /\ retCards = <<>>
        /\ calls.GetListIDByName = 1
        /\ calls.CreateCard = 0
        /\ retErr = IF "GetListIDByName" \in faults
                    THEN <<"failed to get Doing list ID">>
                    ELSE NoErr

\* no task was parsed, the lookup succeeded and HandleTicket returned no error
C8_Witness ==
    /\ pc = "done"
    /\ ParsedNoTask
    /\ "GetListIDByName" \notin faults
    /\ retErr = NoErr
    /\ retCards = <<>>

----------------------------------------------------------------------------
(* Properties of parseTasksFromResponse, checked under ParseSpec *)

\* the characters of s before its first newline
RECURSIVE BeforeNewline(_)
BeforeNewline(s) ==
    IF s = <<>> \/ Head(s) = "\n" THEN <<>>
    ELSE <<Head(s)>> \o BeforeNewline(Tail(s))

\* the characters of s after its first newline
RECURSIVE AfterNewline(_)
AfterNewline(s) ==
    IF s = <<>> THEN <<>>
    ELSE IF Head(s) = "\n" THEN Tail(s)
    ELSE AfterNewline(Tail(s))

NonBlank(seg) == \E i \in 1..Len(seg) : ~IsSpace(seg[i])

\* a line of seg is the delimiter token "@@@@"
HasDelimiterLine(seg) ==
    \E i \in 1..(Len(seg) - 3) :
        /\ SubSeq(seg, i, i + 3) = <<"@", "@", "@", "@">>
        /\ i = 1 \/ seg[i - 1] = "\n"
        /\ i + 3 = Len(seg) \/ seg[i + 4] = "\n"

\* the segments are pieces of text between delimiter lines
WellFormed(segs) == \A i \in 1..Len(segs) : ~HasDelimiterLine(segs[i])

\* title: the first line of the segment, trimmed; description: its other lines,
\* rejoined and trimmed
BlockOfLines(seg) ==
    [Title |-> TrimSpace(BeforeNewline(seg)),
     Description |-> TrimSpace(AfterNewline(seg))]

\* C9 as claimed: for a text made of n >= 1 non-blank segments joined by the
\* delimiter, parse returns n tasks in source order; task i has the trimmed first
\* line of segment i as its title, which is not empty, and the other lines of
\* segment i, rejoined and trimmed, as its description.
C9_SegmentsFirstLineIsTitle ==
    ( /\ pc = "parsed"
      /\ WellFormed(segments)
      /\ \A i \in 1..Len(segments) : NonBlank(segments[i]) ) =>
        /\ Len(tasksParsed) = Len(segments)
        /\ \A i \in 1..Len(segments) :
               /\ tasksParsed[i] = BlockOfLines(segments[i])
               /\ tasksParsed[i].Title # <<>>

\* C9 as amended: for a text made of n >= 1 non-blank segments (none with a line
\* that is the delimiter token) joined by the delimiter, parse returns n tasks in
\* source order; task i has the trimmed first line of the TRIMMED segment i as
\* its title, which is not empty, and the other lines of the trimmed segment,
\* rejoined and trimmed, as its description (empty when it has one line).
C9_TrimmedSegmentsFirstLineIsTitle ==
    ( /\ pc = "parsed"
      /\ WellFormed(segments)
      /\ \A i \in 1..Len(segments) : NonBlank(segments[i]) ) =>
        /\ Len(tasksParsed) = Len(segments)
        /\ \A i \in 1..Len(segments) :
               /\ tasksParsed[i] = BlockOfLines(TrimSpace(segments[i]))
               /\ tasksParsed[i].Title # <<>>

\* two segments were parsed, one that starts with a blank line and one with
\* blanks around its lines
C9_Witness ==
    /\ pc = "parsed"
    /\ Len(segments) = 2
    /\ WellFormed(segments)
    /\ segments[1] = <<" ", "a", " ", "\n", " ", "d", " ", "\n">>
    /\ segments[2] = <<"\n", "b">>
    /\ tasksParsed = << [Title |-> <<"a">>, Description |-> <<"d">>],
                        [Title |-> <<"b">>, Description |-> <<>>] >>

\* the segments that are not blank, in order
Kept(segs) == SelectSeq(segs, NonBlank)

\* C10: parse returns no task for the empty text and for a text of whitespace
\* only; and the segments that are empty after trimming are dropped without a
\* change to the others: the tasks are as many as the non-blank segments, and are
\* the tasks parsed from the text of the non-blank segments alone.
C10_BlankSegmentsAreDropped ==
    pc = "parsed" =>
        /\ ~NonBlank(response) => tasksParsed = <<>>
        /\ WellFormed(segments) =>
               /\ Len(tasksParsed) = Len(Kept(segments))
               /\ tasksParsed =
                      parseTasksFromResponse(Join(Kept(segments), Delimiter)).tasks

\* a blank segment before a non-blank one was dropped
C10_Witness ==
    /\ pc = "parsed"
    /\ Len(segments) = 2
    /\ WellFormed(segments)
    /\ ~NonBlank(segments[1])
    /\ NonBlank(segments[2])
    /\ Len(tasksParsed) = 1

\* C11: parse is total: for every text it returns a (possibly empty) sequence of
\* tasks and never an error, so the caller's parse-failure branch is never
\* taken; and no returned task has a title that is empty after trimming.
C11_ParseIsTotalAndTitlesNonEmpty ==
    /\ pc = "parse" =>
           /\ Len(parseTasksFromResponse(response).tasks) >= 0
           /\ parseTasksFromResponse(response).err = "nil"
    /\ pc = "parsed" =>
           /\ retErr = NoErr
           /\ \A i \in 1..Len(tasksParsed) : NonBlank(tasksParsed[i].Title)

\* a text of two blank segments, joined by the delimiter, was parsed into no
\* task and no error, and so was not rejected
C11_Witness ==
    /\ pc = "parsed"
    /\ Len(segments) = 2
    /\ response # <<>>
    /\ tasksParsed = <<>>
    /\ retErr = NoErr

----------------------------------------------------------------------------
(* Properties of the operations of agent.go, checked under AgentSpec *)

\* an operation of the agent has returned to its caller
Returned == pc \in {"idle", "failed"}

\* NewBaseAgent has returned and no scan was started yet
Constructed == Returned /\ scans = 0

\* GetAssignedTickets has returned
Scanned == pc = "idle" /\ scans >= 1

\* C12 as claimed, for construction, guidance load, ticket scan, assignment check
\* and context refresh: whenever a ticket-store, model or repository call made by
\* an operation failed, the operation returns an error to its caller.
C12_EveryFailureIsPropagated ==
    (Returned /\ faults # {}) => retErr # NoErr

\* a member of the card resolves to the agent's name, ignoring case
HasMyMember(card) ==
    \E i \in 1..Len(card.IDMembers) : EqualFold(Members[card.IDMembers[i]], Name)

\* C13 as claimed: a scan that returns a list returns, in board order, exactly
\* the cards of the board that have at least one assigned member whose resolved
\* name equals the agent's name ignoring case.
C13_ScanReturnsExactlyMyTickets ==
    (Scanned /\ retErr = NoErr) => retCards = SelectSeq(boardCards, HasMyMember)

\* C14: within a scan RefreshProjectContext is invoked at the moment the first
\* assigned card is discovered, and only then: zero times while no card has been
\* collected, once from the first collected card on; the flag is set afresh in
\* every scan until that discovery.
C14_RefreshOncePerScanWithMatch ==
    /\ pc = "refresh" =>
           /\ refreshes = 0
           /\ assigned = <<boardCards[idx]>>
    /\ (pc = "scan" \/ Scanned) =>
           refreshes = (IF assigned = <<>> THEN 0 ELSE 1)
    /\ (pc = "scan" /\ assigned = <<>>) => needToRefreshContext

\* the second scan of an agent refreshed again, on the first of two cards it
\* collected, and returned both
C14_Witness ==
    /\ Scanned
    /\ scans = 2
    /\ Len(retCards) = 2
    /\ refreshes = 1
    /\ calls.RefreshProjectContext = 2

\* C15 as claimed: when NewBaseAgent returns the agent, LoadGuidanceTickets and
\* RefreshProjectContext have each been invoked exactly once.
C15_GuidanceAndRefreshOnceAtStart ==
    (pc = "idle" /\ scans = 0) =>
        /\ calls.LoadGuidanceTickets = 1
        /\ calls.RefreshProjectContext = 1

\* C15 as amended: when NewBaseAgent returns, LoadGuidanceTickets has been invoked
\* exactly once and RefreshProjectContext not at all; whatever the guidance load
\* returned, the purpose was then sent to the model as one system message, and
\* the agent is returned unless that call failed.
C15_GuidanceOnceThenPurpose ==
    Constructed =>
        /\ calls.LoadGuidanceTickets = 1
        /\ calls.RefreshProjectContext = 0
        /\ sent # <<>>
        /\ sent[Len(sent)] = [Role |-> "system", Content |-> Purpose]
        /\ \A i \in 1..(Len(sent) - 1) : sent[i].Content # Purpose
        /\ pc = "failed" <=> "ChatWithMessages" \in faults /\ retErr # NoErr

\* the agent was returned although the guidance load had failed
C15_Witness ==
    /\ pc = "idle"
    /\ scans = 0
    /\ guidanceErr # NoErr
    /\ retErr = NoErr
    /\ Len(sent) = 1

\* the card is in the IMPORTANT list
IsGuidance(card) == card.IDList = "L1"

\* the cards of the IMPORTANT list, in board order
GuidanceCards == SelectSeq(boardCards, IsGuidance)

\* the titles and descriptions of the cards cs, in order
RECURSIVE TitlesAndDetails(_)
TitlesAndDetails(cs) ==
    IF cs = <<>> THEN <<>>
    ELSE TitleLabel \o cs[1].Name \o NL \o DetailsLabel \o cs[1].Desc \o NL \o NL
         \o TitlesAndDetails(Tail(cs))

\* LoadGuidanceTickets has returned to NewBaseAgent
GuidanceReturned == pc = "purpose"

\* one of the reads LoadGuidanceTickets makes of the ticket store failed
GuidanceReadFailed == faults \cap {"GetListIDByName", "GetBoard", "GetCards"} # {}

\* what LoadGuidanceTickets sends when the IMPORTANT list holds the cards cs
GuidanceSentFor(cs) ==
    IF cs = <<>> THEN sent = <<>> /\ guidanceErr = NoErr
    ELSE sent = << [Role |-> "system",
                    Content |-> GuidanceHeader \o TitlesAndDetails(cs)] >>

\* C16 as claimed: LoadGuidanceTickets sends a message iff the IMPORTANT list
\* holds a card: with no such card it returns nil and sends nothing; otherwise it
\* sends exactly one system message, with the title and description of every
\* card of that list in board order and of no other card.
C16_GuidanceSentIffListNonEmpty ==
    GuidanceReturned => GuidanceSentFor(GuidanceCards)

\* C16 as amended: the same, provided the list lookup and the reads of the board
\* and of its cards succeed; when one of them fails LoadGuidanceTickets returns
\* the error and sends nothing, whatever the list holds.
C16_GuidanceSentIffListNonEmptyAndRead ==
    GuidanceReturned =>
        IF GuidanceReadFailed
        THEN sent = <<>> /\ guidanceErr # NoErr
        ELSE GuidanceSentFor(GuidanceCards)

\* a board with a guidance card after a card of another list: one message, with
\* the guidance card only
C16_Witness ==
    /\ GuidanceReturned
    /\ ~GuidanceReadFailed
    /\ Len(boardCards) = 2
    /\ ~IsGuidance(boardCards[1])
    /\ IsGuidance(boardCards[2])
    /\ Len(sent) = 1
    /\ guidanceErr = NoErr

----------------------------------------------------------------------------
(* Properties of AssignTicketToAgent, checked under AssignSpec *)

\* C17: whenever the lookup of the member by name does not succeed (no member
\* of that name, or a lookup error) AssignTicketToAgent returns an error and the
\* members of every card stay as they were; a card's members change only after
\* a lookup that succeeded, only on the card passed in, and only by the id of
\* the member the lookup resolved, whose name is the name asked for.
C17_AssignOnlyAfterSuccessfulLookup ==
    [][ pc' = "assigned" =>
          /\ (member' = NilMember \/ "GetMemberByName" \in faults') =>
                 /\ retErr' # NoErr
                 /\ boardCards' = boardCards
          /\ (~\E k \in DOMAIN Members : Members[k] = agentName') => member' = NilMember
          /\ boardCards' # boardCards =>
                 /\ member' # NilMember
                 /\ Members[member'[1].ID] = agentName'
                 /\ retErr' = NoErr
                 /\ \A i \in 1..Len(boardCards) :
                        boardCards'[i] =
                            IF i = idx'
                            THEN [boardCards[i] EXCEPT
                                    !.IDMembers = Append(@, member'[1].ID)]
                            ELSE boardCards[i] ]_vars

\* the lookup of a name no member has failed, and the card kept its member
C17_Witness ==
    /\ pc = "assigned"
    /\ agentName = <<"x">>
    /\ member = NilMember
    /\ retErr # NoErr
    /\ boardCards[idx].IDMembers = <<"m1">>

----------------------------------------------------------------------------
(* Properties of agents waiting on one ticket, checked under PairSpec *)

\* a character a name can be made of
IsNameChar(c) == ~IsSpace(c) /\ c \notin {"@", "?", ":", ",", "."}

\* at position i of comment c starts the mention "@" + name of exactly that name
MentionAt(c, i, name) ==
    /\ i + Len(name) <= Len(c)
    /\ c[i] = "@"
    /\ SubSeq(c, i + 1, i + Len(name)) = name
    /\ i + Len(name) = Len(c) \/ ~IsNameChar(c[i + Len(name) + 1])

\* comment c is addressed to the agent of that name and to nobody else
AddressedOnlyTo(c, name) ==
    /\ \E i \in 1..Len(c) : MentionAt(c, i, name)
    /\ \A i \in 1..Len(c) : c[i] = "@" => MentionAt(c, i, name)

\* the other one of two waiting agents
Other(i) == 3 - i

\* C18 as claimed: whatever the interleaving of posts, reads and sleeps, the
\* comment an agent's WaitForReply returns holds that agent's own tag, and is
\* never a comment addressed only to the other agent.
C18_OnlyOwnRepliesConsumed ==
    \A i \in DOMAIN waiters :
        waiters[i].pc = "replied" =>
            /\ HoldsTag(waiters[i].reply, <<"@">> \o waiters[i].name)
            /\ ~AddressedOnlyTo(waiters[i].reply, waiters[Other(i)].name)

\* C18 as amended: the comment an agent's WaitForReply returns holds "@" + the
\* agent's name as a substring; it is never a comment addressed only to the
\* other agent unless the agent's name is a prefix of the other agent's name.
C18_OwnTagAsSubstring ==
    \A i \in DOMAIN waiters :
        waiters[i].pc = "replied" =>
            /\ HoldsTag(waiters[i].reply, <<"@">> \o waiters[i].name)
            /\ ~HasPrefix(waiters[Other(i)].name, waiters[i].name) =>
                   ~AddressedOnlyTo(waiters[i].reply, waiters[Other(i)].name)

\* agent em has read a comment addressed only to agent e and waits on, while
\* agent e has consumed that comment
C18_Witness ==
    /\ waiters[1].name = <<"e", "m">>
    /\ waiters[1].pc = "sleep"
    /\ Len(waiters[1].comments) = 3
    /\ AddressedOnlyTo(waiters[1].comments[3], waiters[2].name)
    /\ waiters[2].pc = "replied"
    /\ waiters[2].reply = waiters[1].comments[3]

----------------------------------------------------------------------------
(* Properties of HandleTicket's call order, checked under Spec *)

\* C19: the external calls of HandleTicket are made in the order clarification
\* model call, comment post, comment reads, decomposition model call, list
\* lookup, child creations: a call is made only after the calls before it have
\* succeeded (the reads having returned a reply); every call but the read and
\* the child creation is made at most once, a child is created at most once per
\* task, and after a call has failed HandleTicket is done, so nothing is issued
\* again.
C19_CallsInOrderNeverReissued ==
    /\ calls.ChatClarify <= 1
    /\ calls.WriteComment <= 1
    /\ calls.ChatDecompose <= 1
    /\ calls.GetListIDByName <= 1
    /\ calls.CreateCard <= Len(tasksParsed)
    /\ calls.WriteComment > 0 =>
           calls.ChatClarify = 1 /\ "ChatClarify" \notin faults
    /\ calls.ReadComments > 0 =>
           calls.WriteComment = 1 /\ "WriteComment" \notin faults
    /\ calls.ChatDecompose > 0 =>
           /\ calls.ReadComments >= 1
           /\ "ReadComments" \notin faults
           /\ HoldsTag(reply, <<"@">> \o Name)
    /\ calls.GetListIDByName > 0 =>
           calls.ChatDecompose = 1 /\ "ChatDecompose" \notin faults
    /\ calls.CreateCard > 0 =>
           calls.GetListIDByName = 1 /\ "GetListIDByName" \notin faults
    /\ faults # {} => pc = "done" /\ Cardinality(faults) = 1

\* a run through all six kinds of call, with a second read and with a child
\* creation that failed and was not issued again
C19_Witness ==
    /\ pc = "done"
    /\ retErr = NoErr
    /\ calls.ReadComments >= 2
    /\ calls.CreateCard = 3
    /\ Len(tasksParsed) = 3
    /\ failed = {2}

----------------------------------------------------------------------------
(* Properties of RespondToClarification, checked under AnswerSpec *)

\* the tag of the requester: "@" + backend.Name
RequesterTag == <<"@">> \o waiters[1].name

\* C20: RespondToClarification posts exactly one comment, which holds the tag
\* "@" + requester name, when its model call succeeds, and posts nothing and
\* leaves the ticket's comments alone when the model call fails; once it has
\* returned with success its comment is on the ticket, and the next read of the
\* requester's WaitForReply ends the wait, with a comment holding that tag.
C20_AnswerTagsRequesterAndEndsWait ==
    [][ /\ answer'.chat = "ok" =>
               /\ Len(answer'.posts) = 1
               /\ HoldsTag(answer'.posts[1], RequesterTag')
        /\ answer'.chat = "failed" =>
               /\ answer'.posts = <<>>
               /\ answer.chat = "none" => board' = board
        /\ answer'.state = "done" =>
               \E k \in 1..Len(board') : board'[k] = answer'.posts[1]
        /\ (answer.state = "done" /\ waiters[1].pc = "read"
                                  /\ waiters'[1] # waiters[1]) =>
               /\ waiters'[1].pc \in {"replied", "failed"}
               /\ waiters'[1].pc = "replied" =>
                      HoldsTag(waiters'[1].reply, RequesterTag') ]_vars

\* the answer was posted to the ticket that held only the requester's own
\* comment, and the requester's read returned the response comment
C20_Witness ==
    /\ answer.state = "done"
    /\ waiters[1].pc = "replied"
    /\ waiters[1].reply = answer.posts[1]
    /\ Len(board) = 2

----------------------------------------------------------------------------
(* Properties of the reply HandleTicket consumes, checked under Spec *)

\* the position on the ticket of the clarification comment of this run: the
\* comments after it are those other board users appended during the wait
QuestionAt == Len(board) - posted

\* the position, in the read that ended the wait, of the comment that was
\* returned: the first one holding the tag
ConsumedAt ==
    CHOOSE k \in 1..Len(comments) :
        /\ HoldsTag(comments[k], Tag)
        /\ \A j \in 1..(k - 1) : ~HoldsTag(comments[j], Tag)

\* C21 as claimed: the comment HandleTicket consumes as the reply stands on the
\* ticket after the clarification comment of the same run: it is neither that
\* comment itself nor a comment that was on the ticket before it.
C21_ReplyFollowsOwnQuestion ==
    (Replied /\ MatchingRead) =>
        /\ reply = comments[ConsumedAt]
        /\ ConsumedAt > QuestionAt

\* a read of the comments has failed
ReadHasFailed == "ReadComments" \in faults

\* C22: once a read of the comments has failed, HandleTicket is done with an
\* error and a nil card list; the failed read was the last call made: every read
\* before it was followed by one sleep and the failed one by none, it was not
\* read again although attempts were left, and no decomposition, list lookup or
\* child creation was made.
C22_ReadFailureEndsTheWait ==
    ReadHasFailed =>
        /\ pc = "done"
        /\ retErr # NoErr
        /\ retCards = <<>>
        /\ calls.ReadComments = attempt
        /\ calls.Sleep = calls.ReadComments - 1
        /\ calls.ChatDecompose = 0
        /\ calls.GetListIDByName = 0
        /\ calls.CreateCard = 0
        /\ createdTickets = <<>>

\* the third read failed, with ninety-seven attempts of the budget left
C22_Witness ==
    /\ ReadHasFailed
    /\ pc = "done"
    /\ calls.ReadComments = 3
    /\ calls.Sleep = 2
    /\ attempt < maxAttempts

----------------------------------------------------------------------------
(* Properties of the delimiter lines, checked under ParseSpec *)

DelimiterToken == <<"@", "@", "@", "@">>

\* C23 as claimed: for every text, no task returned by the parser has the
\* delimiter token as its title or a description with a line that is the
\* delimiter token, also when a delimiter line is the first or the last line of
\* the text or when two delimiter lines are adjacent.
C23_DelimiterLinesAlwaysSeparate ==
    pc = "parsed" =>
        \A i \in 1..Len(tasksParsed) :
            /\ tasksParsed[i].Title # DelimiterToken
            /\ ~HasDelimiterLine(tasksParsed[i].Description)

====
